---- MODULE Spec2Model ----
(***************************************************************************)
(* The relational schema of src/models.py as a state machine.              *)
(*                                                                         *)
(* The state is the content of the four mapped tables (sites, contracts,   *)
(* invoices, timeseries_records), the id generators of the three surrogate *)
(* keys, the kind of storage the enum columns got, and the outcome of the  *)
(* last operation as its caller sees it.  The operations are the row       *)
(* operations the mapping admits: INSERT, UPDATE and DELETE of one row,    *)
(* loading one row back into its mapped class, and repr() of a loaded      *)
(* object.  Every constraint below is one the declarations state: primary  *)
(* keys, unique=True, ForeignKey, the non-Optional Mapped[] annotations    *)
(* (NOT NULL) and the column types the annotations resolve to.             *)
(*                                                                         *)
(* Numbers: floats are held as scaled integers (amount in cents, capacity  *)
(* in kW, coordinates in tenths of a degree), dates as yyyymmdd integers,  *)
(* timestamps as hours since 2024-01-01T00:00 UTC.                          *)
(***************************************************************************)
EXTENDS Integers, Sequences, FiniteSets, TLC

VARIABLES sites, contracts, invoices, timeseries_records,
          sites_id_seq, contracts_id_seq, invoices_id_seq,
          native_enum, result

tables == <<sites, contracts, invoices, timeseries_records>>
seqs == <<sites_id_seq, contracts_id_seq, invoices_id_seq>>
vars == <<sites, contracts, invoices, timeseries_records,
          sites_id_seq, contracts_id_seq, invoices_id_seq, native_enum, result>>

(***************************************************************************)
(* The rows of the four tables: the mapped columns of each class, in       *)
(* declaration order, with the type each is stored as.                     *)
(***************************************************************************)

Site ==
    [id : Int, name : STRING, capacity : Int, techno : STRING,
     latitude : Int, longitude : Int]

Contract ==
    [id : Int, purchase_order : STRING, start_date : Int, end_date : Int,
     site_id : Int, price : Int, invoicing_frequency : STRING]

Invoice ==
    [id : Int, start_date : Int, end_date : Int, publication_id : STRING,
     amount : Int, amount_unit : STRING, status : STRING, contract_id : Int]

TSRecords ==
    [site_id : Int, timestamp : Int, production : Int, unit_production : STRING,
     cashflow : Int, unit_cashflow : STRING]

\* What the caller of an operation gets: the outcome and, from a statement that
\* succeeded, the row as stored (or the object as loaded, or the repr string).
Outcome(op, table, args, outcome, value) ==
    [op |-> op, table |-> table, args |-> args, outcome |-> outcome, value |-> value]

\* What the caller of an UPDATE that succeeded holds: the row as it is stored
\* now and, still in the session, the row as it was.
Updated(table, args, row, old) ==
    [op |-> "update", table |-> table, args |-> args, outcome |-> "ok",
     value |-> row, before |-> old]

\* The largest surrogate id a generator hands out in the model.
MaxId == 2

\* A missing value (Python None, SQL NULL) of an integer column; ids start at 1.
NULL == 0

(***************************************************************************)
(* Enumerations                                                            *)
(***************************************************************************)

\* str.lower() on the strings of the model (enum.auto() in a StrEnum lower-cases
\* the member name to make the member value).
Lower(s) ==
    CASE s = "Solar_Field_Rooftop" -> "solar_field_rooftop"
      [] s = "PAID" -> "paid"
      [] s = "Monthly" -> "monthly"
      [] s = "Quarterly" -> "quarterly"
      [] s = "Bi-annually" -> "bi-annually"
      [] s = "Annually" -> "annually"
      [] s = "Weekly" -> "weekly"
      [] OTHER -> s

\* str() of a non-negative integer below 100.
Digits == <<"0", "1", "2", "3", "4", "5", "6", "7", "8", "9">>
IntStr(i) ==
    IF i < 10 THEN Digits[i + 1]
    ELSE Digits[(i \div 10) + 1] \o Digits[(i % 10) + 1]

\* The member names of Techno, in declaration order.
TechnoNames ==
    <<"wind_turbine_onshore", "wind_turbine_offshore",
      "solar_field_ground_mounted", "solar_field_rooftop", "solar_field_canopy",
      "hydro_turbine_run_of_river", "hydro_turbine_pumped_storage",
      "hydro_turbine_reservoir",
      "cogeneration_biomass", "cogeneration_waste", "cogeneration_other">>

\* The member names of InvoiceStatus, in declaration order.
InvoiceStatusNames == <<"draft", "computed", "error", "published", "paid">>

\* The strings of the Literal annotation of Contract.invoicing_frequency.
InvoicingFrequencies == <<"Monthly", "Quarterly", "Bi-annually", "Annually">>

Range(f) == {f[i] : i \in DOMAIN f}

\* The values of the members of a StrEnum declared with enum.auto(), by position:
\* each member is a str equal to its value, the lower-cased name.
StrEnumValues(names) == [i \in DOMAIN names |-> Lower(names[i])]

TechnoValues == StrEnumValues(TechnoNames)
InvoiceStatusValues == StrEnumValues(InvoiceStatusNames)

\* EnumDbValue as it would be if the type persisted the position of the member,
\* as an integer-coded enum does, in place of its name.
EnumDbValueByPosition(names, values, elem) ==
    IF \E i \in DOMAIN names : values[i] = elem \/ names[i] = elem
    THEN IntStr(CHOOSE i \in DOMAIN names : values[i] = elem \/ names[i] = elem)
    ELSE elem

\* Enum bind processing (Python value to stored string) of a column whose type was
\* resolved from an enum class or a Literal: a member, or a string equal to a
\* member's name, is stored as the member's name; any other string is passed
\* through as it is (validate_strings is off by default).
EnumDbValue(names, values, elem) ==
    IF \E i \in DOMAIN names : values[i] = elem \/ names[i] = elem
    THEN names[CHOOSE i \in DOMAIN names : values[i] = elem \/ names[i] = elem]
    ELSE elem

\* Enum result processing (stored string to Python value): the member whose name
\* the string is; a string that names no member raises LookupError.
EnumObjectValue(names, values, s) ==
    IF \E i \in DOMAIN names : names[i] = s
    THEN [value |-> values[CHOOSE i \in DOMAIN names : names[i] = s], raised |-> FALSE]
    ELSE [value |-> s, raised |-> TRUE]

\* Mapped[Techno] and Mapped[InvoiceStatus] resolve to an Enum type of the class,
\* which persists member names; Mapped[Literal[...]] resolves to an Enum type of
\* the strings, each its own name and value.
TechnoDb(elem) == EnumDbValue(TechnoNames, TechnoValues, elem)
TechnoObject(s) == EnumObjectValue(TechnoNames, TechnoValues, s)
InvoiceStatusDb(elem) == EnumDbValue(InvoiceStatusNames, InvoiceStatusValues, elem)
InvoiceStatusObject(s) == EnumObjectValue(InvoiceStatusNames, InvoiceStatusValues, s)
FrequencyDb(elem) == EnumDbValue(InvoicingFrequencies, InvoicingFrequencies, elem)
FrequencyObject(s) == EnumObjectValue(InvoicingFrequencies, InvoicingFrequencies, s)

\* Whether the storage takes string s in a column typed from enum class `names`:
\* a native enum type (CREATE TYPE ... AS ENUM) holds the member names only, a
\* VARCHAR column holds any string.  The Literal column is never native.
EnumClassColumnTakes(names, s) == ~native_enum \/ s \in Range(names)

(***************************************************************************)
(* Rows                                                                    *)
(***************************************************************************)

\* row with the columns named in `changes` replaced.
Merge(row, changes) ==
    [c \in DOMAIN row |-> IF c \in DOMAIN changes THEN changes[c] ELSE row[c]]

Ids(table) == {r.id : r \in table}

\* A failed statement: the row operation is rolled back, nothing is written.
Fail(op, table, args, errors) ==
    /\ \E e \in errors : result' = Outcome(op, table, args, e, <<>>)
    /\ UNCHANGED <<tables, seqs, native_enum>>

(***************************************************************************)
(* sites                                                                   *)
(***************************************************************************)

\* The stored row of a Site object: the techno column goes through the bind
\* processing of its type.
SiteRow(id, v) ==
    [id |-> id, name |-> v.name, capacity |-> v.capacity,
     techno |-> TechnoDb(v.techno), latitude |-> v.latitude, longitude |-> v.longitude]

\* The stored row after UPDATE ... SET of the columns in `changes`.
SiteUpdate(old, changes) ==
    Merge(old, [c \in DOMAIN changes |->
                   IF c = "techno" THEN TechnoDb(changes[c]) ELSE changes[c]])

\* SiteErrors as it would be without unique=True on Site.name.
SiteErrorsNameNotUnique(row, others) ==
    IF EnumClassColumnTakes(TechnoNames, row.techno) THEN {} ELSE {"DataError"}

\* The constraints of table sites that `row` breaks beside the rows `others`.
SiteErrors(row, others) ==
    {"UniquenessViolation" : r \in {o \in others : o.name = row.name}}
    \cup (IF EnumClassColumnTakes(TechnoNames, row.techno) THEN {} ELSE {"DataError"})

InsertSite(v) ==
    /\ sites_id_seq <= MaxId
    /\ LET row == SiteRow(sites_id_seq, v)
           errors == SiteErrors(row, sites)
       IN  IF errors = {}
           THEN /\ sites' = sites \cup {row}
                /\ sites_id_seq' = sites_id_seq + 1
                /\ result' = Outcome("insert", "sites", v, "ok", row)
                /\ UNCHANGED <<contracts, invoices, timeseries_records,
                               contracts_id_seq, invoices_id_seq, native_enum>>
           ELSE Fail("insert", "sites", v, errors)

UpdateSite(id, changes) ==
    \E old \in sites :
        /\ old.id = id
        /\ LET row == SiteUpdate(old, changes)
               args == [id |-> id, changes |-> changes]
               errors == SiteErrors(row, sites \ {old})
           IN  IF errors = {}
               THEN /\ sites' = (sites \ {old}) \cup {row}
                    /\ result' = Updated("sites", args, row, old)
                    /\ UNCHANGED <<contracts, invoices, timeseries_records,
                                   seqs, native_enum>>
               ELSE Fail("update", "sites", args, errors)

\* SiteDeleteErrors as it would be if only contracts referred to sites.
SiteDeleteErrorsContractsOnly(id) ==
    {"ReferentialIntegrityViolation" : r \in {c \in contracts : c.site_id = id}}

\* ForeignKey("sites.id") of contracts and of timeseries_records names no
\* ondelete: the row of a site that is still referenced cannot be deleted.
SiteDeleteErrors(id) ==
    {"ReferentialIntegrityViolation" : r \in {c \in contracts : c.site_id = id}}
    \cup {"ReferentialIntegrityViolation" :
             r \in {t \in timeseries_records : t.site_id = id}}

DeleteSite(id) ==
    \E old \in sites :
        /\ old.id = id
        /\ LET args == [id |-> id]
               errors == SiteDeleteErrors(id)
           IN  IF errors = {}
               THEN /\ sites' = sites \ {old}
                    /\ result' = Outcome("delete", "sites", args, "ok", <<>>)
                    /\ UNCHANGED <<contracts, invoices, timeseries_records,
                                   seqs, native_enum>>
               ELSE Fail("delete", "sites", args, errors)

(***************************************************************************)
(* contracts                                                               *)
(***************************************************************************)

ContractRow(id, v) ==
    [id |-> id, purchase_order |-> v.purchase_order, start_date |-> v.start_date,
     end_date |-> v.end_date, site_id |-> v.site_id, price |-> v.price,
     invoicing_frequency |-> FrequencyDb(v.invoicing_frequency)]

ContractUpdate(old, changes) ==
    Merge(old, [c \in DOMAIN changes |->
                   IF c = "invoicing_frequency" THEN FrequencyDb(changes[c])
                   ELSE changes[c]])

\* ContractErrors as it would be if purchase_order were unique per site only.
ContractErrorsUniquePerSite(row, others) ==
    {"UniquenessViolation" :
        r \in {o \in others : /\ o.purchase_order = row.purchase_order
                              /\ o.site_id = row.site_id}}
    \cup (IF row.site_id = NULL \/ row.site_id \notin Ids(sites)
          THEN {"ReferentialIntegrityViolation"} ELSE {})

\* ContractErrors as it would be if site_id were a plain integer column, with no
\* ForeignKey("sites.id").
ContractErrorsNoForeignKey(row, others) ==
    {"UniquenessViolation" :
        r \in {o \in others : o.purchase_order = row.purchase_order}}
    \cup (IF row.site_id = NULL THEN {"ReferentialIntegrityViolation"} ELSE {})

\* The constraints of table contracts that `row` breaks beside the rows `others`:
\* purchase_order is unique, site_id is NOT NULL and a foreign key to sites.id.
ContractErrors(row, others) ==
    {"UniquenessViolation" :
        r \in {o \in others : o.purchase_order = row.purchase_order}}
    \cup (IF row.site_id = NULL \/ row.site_id \notin Ids(sites)
          THEN {"ReferentialIntegrityViolation"} ELSE {})

InsertContract(v) ==
    /\ contracts_id_seq <= MaxId
    /\ LET row == ContractRow(contracts_id_seq, v)
           errors == ContractErrors(row, contracts)
       IN  IF errors = {}
           THEN /\ contracts' = contracts \cup {row}
                /\ contracts_id_seq' = contracts_id_seq + 1
                /\ result' = Outcome("insert", "contracts", v, "ok", row)
                /\ UNCHANGED <<sites, invoices, timeseries_records,
                               sites_id_seq, invoices_id_seq, native_enum>>
           ELSE Fail("insert", "contracts", v, errors)

UpdateContract(id, changes) ==
    \E old \in contracts :
        /\ old.id = id
        /\ LET row == ContractUpdate(old, changes)
               args == [id |-> id, changes |-> changes]
               errors == ContractErrors(row, contracts \ {old})
           IN  IF errors = {}
               THEN /\ contracts' = (contracts \ {old}) \cup {row}
                    /\ result' = Updated("contracts", args, row, old)
                    /\ UNCHANGED <<sites, invoices, timeseries_records,
                                   seqs, native_enum>>
               ELSE Fail("update", "contracts", args, errors)

\* ForeignKey("contracts.id") of invoices names no ondelete.
ContractDeleteErrors(id) ==
    {"ReferentialIntegrityViolation" : r \in {i \in invoices : i.contract_id = id}}

DeleteContract(id) ==
    \E old \in contracts :
        /\ old.id = id
        /\ LET args == [id |-> id]
               errors == ContractDeleteErrors(id)
           IN  IF errors = {}
               THEN /\ contracts' = contracts \ {old}
                    /\ result' = Outcome("delete", "contracts", args, "ok", <<>>)
                    /\ UNCHANGED <<sites, invoices, timeseries_records,
                                   seqs, native_enum>>
               ELSE Fail("delete", "contracts", args, errors)

(***************************************************************************)
(* invoices                                                                *)
(***************************************************************************)

InvoiceRow(id, v) ==
    [id |-> id, start_date |-> v.start_date, end_date |-> v.end_date,
     publication_id |-> v.publication_id, amount |-> v.amount,
     amount_unit |-> v.amount_unit, status |-> InvoiceStatusDb(v.status),
     contract_id |-> v.contract_id]

\* InvoiceUpdate as it would be if a paid invoice kept its status and amount.
InvoiceUpdatePaidIsFinal(old, changes) ==
    IF old.status = "paid"
    THEN Merge(old, [c \in DOMAIN changes \ {"status", "amount"} |-> changes[c]])
    ELSE Merge(old, [c \in DOMAIN changes |->
                        IF c = "status" THEN InvoiceStatusDb(changes[c])
                        ELSE changes[c]])

\* InvoiceUpdate as it would be if an UPDATE that sets the status recomputed the
\* row's period end as well.
InvoiceUpdateTouchesPeriod(old, changes) ==
    Merge(old, [c \in DOMAIN changes \cup
                       (IF "status" \in DOMAIN changes THEN {"end_date"} ELSE {}) |->
                   IF c = "status" THEN InvoiceStatusDb(changes[c])
                   ELSE IF c \in DOMAIN changes THEN changes[c]
                   ELSE old.start_date])

\* The stored row after UPDATE ... SET of the columns in `changes`: every column
\* named is written, whatever the row held.
InvoiceUpdate(old, changes) ==
    Merge(old, [c \in DOMAIN changes |->
                   IF c = "status" THEN InvoiceStatusDb(changes[c]) ELSE changes[c]])

\* The constraints of table invoices that `row` breaks beside the rows `others`:
\* publication_id is unique, contract_id is NOT NULL and a foreign key to
\* contracts.id.  No constraint reads the row's previous status or amount.
InvoiceErrors(row, others) ==
    {"UniquenessViolation" :
        r \in {o \in others : o.publication_id = row.publication_id}}
    \cup (IF row.contract_id = NULL \/ row.contract_id \notin Ids(contracts)
          THEN {"ReferentialIntegrityViolation"} ELSE {})
    \cup (IF EnumClassColumnTakes(InvoiceStatusNames, row.status)
          THEN {} ELSE {"DataError"})

InsertInvoice(v) ==
    /\ invoices_id_seq <= MaxId
    /\ LET row == InvoiceRow(invoices_id_seq, v)
           errors == InvoiceErrors(row, invoices)
       IN  IF errors = {}
           THEN /\ invoices' = invoices \cup {row}
                /\ invoices_id_seq' = invoices_id_seq + 1
                /\ result' = Outcome("insert", "invoices", v, "ok", row)
                /\ UNCHANGED <<sites, contracts, timeseries_records,
                               sites_id_seq, contracts_id_seq, native_enum>>
           ELSE Fail("insert", "invoices", v, errors)

UpdateInvoice(id, changes) ==
    \E old \in invoices :
        /\ old.id = id
        /\ LET row == InvoiceUpdate(old, changes)
               args == [id |-> id, changes |-> changes]
               errors == InvoiceErrors(row, invoices \ {old})
           IN  IF errors = {}
               THEN /\ invoices' = (invoices \ {old}) \cup {row}
                    /\ result' = Updated("invoices", args, row, old)
                    /\ UNCHANGED <<sites, contracts, timeseries_records,
                                   seqs, native_enum>>
               ELSE Fail("update", "invoices", args, errors)

DeleteInvoice(id) ==
    \E old \in invoices :
        /\ old.id = id
        /\ invoices' = invoices \ {old}
        /\ result' = Outcome("delete", "invoices", [id |-> id], "ok", <<>>)
        /\ UNCHANGED <<sites, contracts, timeseries_records, seqs, native_enum>>

(***************************************************************************)
(* timeseries_records                                                      *)
(***************************************************************************)

TSRecordsRow(v) ==
    [site_id |-> v.site_id, timestamp |-> v.timestamp, production |-> v.production,
     unit_production |-> v.unit_production, cashflow |-> v.cashflow,
     unit_cashflow |-> v.unit_cashflow]

TSRecordsUpdate(old, changes) == Merge(old, changes)

\* TSRecordsErrors as it would be if site_id alone were the primary key.
TSRecordsErrorsKeyIsSite(row, others) ==
    {"UniquenessViolation" : r \in {o \in others : o.site_id = row.site_id}}
    \cup (IF row.site_id = NULL \/ row.site_id \notin Ids(sites)
          THEN {"ReferentialIntegrityViolation"} ELSE {})

\* The constraints of table timeseries_records that `row` breaks beside the rows
\* `others`: (site_id, timestamp) is the primary key, site_id a foreign key to
\* sites.id.
TSRecordsErrors(row, others) ==
    {"UniquenessViolation" :
        r \in {o \in others : o.site_id = row.site_id /\ o.timestamp = row.timestamp}}
    \cup (IF row.site_id = NULL \/ row.site_id \notin Ids(sites)
          THEN {"ReferentialIntegrityViolation"} ELSE {})

InsertTSRecords(v) ==
    LET row == TSRecordsRow(v)
        errors == TSRecordsErrors(row, timeseries_records)
    IN  IF errors = {}
        THEN /\ timeseries_records' = timeseries_records \cup {row}
             /\ result' = Outcome("insert", "timeseries_records", v, "ok", row)
             /\ UNCHANGED <<sites, contracts, invoices, seqs, native_enum>>
        ELSE Fail("insert", "timeseries_records", v, errors)

UpdateTSRecords(site_id, timestamp, changes) ==
    \E old \in timeseries_records :
        /\ old.site_id = site_id /\ old.timestamp = timestamp
        /\ LET row == TSRecordsUpdate(old, changes)
               args == [site_id |-> site_id, timestamp |-> timestamp,
                        changes |-> changes]
               errors == TSRecordsErrors(row, timeseries_records \ {old})
           IN  IF errors = {}
               THEN /\ timeseries_records' = (timeseries_records \ {old}) \cup {row}
                    /\ result' = Updated("timeseries_records", args, row, old)
                    /\ UNCHANGED <<sites, contracts, invoices, seqs, native_enum>>
               ELSE Fail("update", "timeseries_records", args, errors)

DeleteTSRecords(site_id, timestamp) ==
    \E old \in timeseries_records :
        /\ old.site_id = site_id /\ old.timestamp = timestamp
        /\ timeseries_records' = timeseries_records \ {old}
        /\ result' = Outcome("delete", "timeseries_records",
                             [site_id |-> site_id, timestamp |-> timestamp], "ok", <<>>)
        /\ UNCHANGED <<sites, contracts, invoices, seqs, native_enum>>

(***************************************************************************)
(* Loading a row into its mapped class, and repr()                         *)
(***************************************************************************)

\* The Python objects of the rows: a stored enum string goes through the result
\* processing of its column type; the other columns are loaded as they are.
SiteObject(row) == Merge(row, [techno |-> TechnoObject(row.techno).value])
ContractObject(row) ==
    Merge(row, [invoicing_frequency |-> FrequencyObject(row.invoicing_frequency).value])
InvoiceObject(row) == Merge(row, [status |-> InvoiceStatusObject(row.status).value])
TSRecordsObject(row) == row

\* SELECT of one row through the mapping: the loaded object, or the LookupError
\* of an enum column whose stored string names no member.
Get(table, args, raised, object) ==
    /\ result' = IF raised
                 THEN Outcome("get", table, args, "LookupError", <<>>)
                 ELSE Outcome("get", table, args, "ok", object)
    /\ UNCHANGED <<tables, seqs, native_enum>>

GetSite(id) ==
    \E row \in sites :
        /\ row.id = id
        /\ Get("sites", [id |-> id], TechnoObject(row.techno).raised, SiteObject(row))

GetContract(id) ==
    \E row \in contracts :
        /\ row.id = id
        /\ Get("contracts", [id |-> id],
               FrequencyObject(row.invoicing_frequency).raised, ContractObject(row))

GetInvoice(id) ==
    \E row \in invoices :
        /\ row.id = id
        /\ Get("invoices", [id |-> id],
               InvoiceStatusObject(row.status).raised, InvoiceObject(row))

GetTSRecords(site_id, timestamp) ==
    \E row \in timeseries_records :
        /\ row.site_id = site_id /\ row.timestamp = timestamp
        /\ Get("timeseries_records", [site_id |-> site_id, timestamp |-> timestamp],
               FALSE, TSRecordsObject(row))

\* Strings built by f-strings are held as the sequence of their parts.
SiteStr(obj) == <<obj.name>>
ContractStr(obj) == <<obj.purchase_order>>
InvoiceStr(obj) == <<obj.publication_id, " - ", obj.status>>

\* timestamp.astimezone(ZoneInfo("Europe/Paris")).date().isoformat(): timestamps
\* are hours since 2024-01-01T00:00 UTC, in January (CET, one hour ahead of UTC).
ParisIsoDate(timestamp) == <<"2024-01-0", IntStr((timestamp + 1) \div 24 + 1)>>

\* TSRecords.__str__ reads the related Site (self.site) and the timestamp.
TSRecordsStr(obj) ==
    LET site == CHOOSE s \in sites : s.id = obj.site_id
    IN  SiteStr(SiteObject(site)) \o <<" - ">> \o ParisIsoDate(obj.timestamp)

\* Base.__repr__: the class name, self.id and str(self).  Reading self.id raises
\* AttributeError on an object of a class that maps no attribute id.
BaseRepr(class, obj, str) ==
    IF "id" \in DOMAIN obj
    THEN [value |-> <<"<", class, " n°", IntStr(obj.id), " - ">> \o str \o <<">">>,
          raised |-> FALSE]
    ELSE [value |-> <<>>, raised |-> TRUE]

\* repr() of the object of a stored row.
Repr(table, args, load_raised, repr) ==
    /\ result' = IF load_raised
                 THEN Outcome("repr", table, args, "LookupError", <<>>)
                 ELSE IF repr.raised
                 THEN Outcome("repr", table, args, "AttributeError", <<>>)
                 ELSE Outcome("repr", table, args, "ok", repr.value)
    /\ UNCHANGED <<tables, seqs, native_enum>>

ReprSite(id) ==
    \E row \in sites :
        /\ row.id = id
        /\ Repr("sites", [id |-> id], TechnoObject(row.techno).raised,
                BaseRepr("Site", SiteObject(row), SiteStr(SiteObject(row))))

ReprContract(id) ==
    \E row \in contracts :
        /\ row.id = id
        /\ Repr("contracts", [id |-> id],
                FrequencyObject(row.invoicing_frequency).raised,
                BaseRepr("Contract", ContractObject(row),
                         ContractStr(ContractObject(row))))

ReprInvoice(id) ==
    \E row \in invoices :
        /\ row.id = id
        /\ Repr("invoices", [id |-> id], InvoiceStatusObject(row.status).raised,
                BaseRepr("Invoice", InvoiceObject(row), InvoiceStr(InvoiceObject(row))))

ReprTSRecords(site_id, timestamp) ==
    \E row \in timeseries_records :
        /\ row.site_id = site_id /\ row.timestamp = timestamp
        /\ Repr("timeseries_records", [site_id |-> site_id, timestamp |-> timestamp],
                FALSE,
                BaseRepr("TSRecords", TSRecordsObject(row),
                         TSRecordsStr(TSRecordsObject(row))))

(***************************************************************************)
(* Specifications                                                          *)
(***************************************************************************)

Init ==
    /\ sites = {}
    /\ contracts = {}
    /\ invoices = {}
    /\ timeseries_records = {}
    /\ sites_id_seq = 1
    /\ contracts_id_seq = 1
    /\ invoices_id_seq = 1
    /\ native_enum \in BOOLEAN
    /\ result = Outcome("create_all", "", <<>>, "ok", <<>>)

\* The values the operations are tried with.
SiteNames == {"Farm A", "Farm B"}
PurchaseOrders == {"PO-001", "PO-002"}
PublicationIds == {"INV-0001", "INV-0002"}
Timestamps == {0, 24}

\* A reference as a caller may give it: none, or any id the generators can reach.
References == {NULL} \cup (1..MaxId)

NewSite(name, techno) ==
    [name |-> name, capacity |-> 500, techno |-> techno, latitude |-> 488,
     longitude |-> 23]

NewContract(purchase_order, site_id, frequency) ==
    [purchase_order |-> purchase_order, start_date |-> 20240101,
     end_date |-> 20241231, site_id |-> site_id, price |-> 4550,
     invoicing_frequency |-> frequency]

NewInvoice(publication_id, contract_id, status) ==
    [start_date |-> 20240101, end_date |-> 20240131,
     publication_id |-> publication_id, amount |-> 0, amount_unit |-> "EUR",
     status |-> status, contract_id |-> contract_id]

NewTSRecords(site_id, timestamp, production) ==
    [site_id |-> site_id, timestamp |-> timestamp, production |-> production,
     unit_production |-> "kWh", cashflow |-> 45 * production, unit_cashflow |-> "EUR"]

\* Sites, contracts and invoices are inserted and updated.
Next ==
    \/ \E n \in SiteNames : InsertSite(NewSite(n, "wind_turbine_onshore"))
    \/ \E r \in sites, n \in SiteNames : UpdateSite(r.id, [name |-> n])
    \/ \E p \in PurchaseOrders, s \in References :
          InsertContract(NewContract(p, s, "Monthly"))
    \/ \E r \in contracts, p \in PurchaseOrders :
          UpdateContract(r.id, [purchase_order |-> p])
    \/ \E r \in contracts, s \in References : UpdateContract(r.id, [site_id |-> s])
    \/ \E p \in PublicationIds, c \in References :
          InsertInvoice(NewInvoice(p, c, "draft"))
    \/ \E r \in invoices, p \in PublicationIds :
          UpdateInvoice(r.id, [publication_id |-> p])
    \/ \E r \in invoices, c \in References : UpdateInvoice(r.id, [contract_id |-> c])

Spec == Init /\ [][Next]_vars

\* Sites and their time series.
NextTimeseries ==
    \/ \E n \in SiteNames : InsertSite(NewSite(n, "wind_turbine_onshore"))
    \/ \E s \in References, t \in Timestamps, p \in {100, 200} :
          InsertTSRecords(NewTSRecords(s, t, p))
    \/ \E r \in timeseries_records, p \in {100, 200} :
          UpdateTSRecords(r.site_id, r.timestamp,
                          [production |-> p, cashflow |-> 45 * p])
    \/ \E r \in timeseries_records, t \in Timestamps :
          UpdateTSRecords(r.site_id, r.timestamp, [timestamp |-> t])
    \/ \E r \in timeseries_records, s \in References :
          UpdateTSRecords(r.site_id, r.timestamp, [site_id |-> s])
    \/ \E r \in timeseries_records : DeleteTSRecords(r.site_id, r.timestamp)

SpecTimeseries == Init /\ [][NextTimeseries]_vars

\* The four tables with their references: inserts, changes of a reference, deletes,
\* and repr() of the stored rows' objects.
NextSchema ==
    \/ \E n \in SiteNames : InsertSite(NewSite(n, "wind_turbine_onshore"))
    \/ \E s \in References : InsertContract(NewContract("PO-001", s, "Monthly"))
    \/ \E r \in contracts, s \in References : UpdateContract(r.id, [site_id |-> s])
    \/ \E c \in References : InsertInvoice(NewInvoice("INV-0001", c, "draft"))
    \/ \E r \in invoices, c \in References : UpdateInvoice(r.id, [contract_id |-> c])
    \/ \E s \in References : InsertTSRecords(NewTSRecords(s, 0, 100))
    \/ \E r \in timeseries_records, s \in References :
          UpdateTSRecords(r.site_id, r.timestamp, [site_id |-> s])
    \/ \E r \in sites : DeleteSite(r.id)
    \/ \E r \in contracts : DeleteContract(r.id)
    \/ \E r \in invoices : DeleteInvoice(r.id)
    \/ \E r \in timeseries_records : DeleteTSRecords(r.site_id, r.timestamp)
    \/ \E r \in sites : ReprSite(r.id)
    \/ \E r \in contracts : ReprContract(r.id)
    \/ \E r \in invoices : ReprInvoice(r.id)
    \/ \E r \in timeseries_records : ReprTSRecords(r.site_id, r.timestamp)

SpecSchema == Init /\ [][NextSchema]_vars

\* What a caller may hand to an enum column: a member (a str equal to its value)
\* or any other string.
TechnoInputs == Range(TechnoValues) \cup {"Solar_Field_Rooftop"}
InvoiceStatusInputs == Range(InvoiceStatusValues) \cup {"PAID"}
FrequencyInputs == Range(InvoicingFrequencies) \cup {"Weekly"}

\* One row of each table with an enum column, written and loaded back.
NextMapping ==
    \/ \E t \in TechnoInputs : InsertSite(NewSite("Farm A", t))
    \/ \E r \in sites, t \in TechnoInputs : UpdateSite(r.id, [techno |-> t])
    \/ \E f \in FrequencyInputs : InsertContract(NewContract("PO-001", 1, f))
    \/ \E r \in contracts, f \in FrequencyInputs :
          UpdateContract(r.id, [invoicing_frequency |-> f])
    \/ \E s \in InvoiceStatusInputs : InsertInvoice(NewInvoice("INV-0001", 1, s))
    \/ \E r \in invoices, s \in InvoiceStatusInputs : UpdateInvoice(r.id, [status |-> s])
    \/ \E r \in sites : GetSite(r.id)
    \/ \E r \in contracts : GetContract(r.id)
    \/ \E r \in invoices : GetInvoice(r.id)

SpecMapping == Init /\ [][NextMapping]_vars

\* One site, its contracts and the life of their invoices.
NextLifecycle ==
    \/ InsertSite(NewSite("Farm A", "wind_turbine_onshore"))
    \/ \E p \in PurchaseOrders : InsertContract(NewContract(p, 1, "Monthly"))
    \/ \E p \in PublicationIds, c \in 1..MaxId, s \in {"draft", "paid"} :
          InsertInvoice(NewInvoice(p, c, s))
    \/ \E r \in invoices, s \in Range(InvoiceStatusValues) :
          UpdateInvoice(r.id, [status |-> s])
    \/ \E r \in invoices, a \in {0, 120050} : UpdateInvoice(r.id, [amount |-> a])
    \/ \E r \in invoices :
          UpdateInvoice(r.id, [amount |-> 120050, status |-> "computed"])
    \/ \E r \in invoices : GetInvoice(r.id)

SpecLifecycle == Init /\ [][NextLifecycle]_vars

\* The invoices of one contract: every change of status and of amount.
NextTransitions ==
    \/ InsertSite(NewSite("Farm A", "wind_turbine_onshore"))
    \/ InsertContract(NewContract("PO-001", 1, "Monthly"))
    \/ \E p \in PublicationIds, s \in {"draft", "paid"} :
          InsertInvoice(NewInvoice(p, 1, s))
    \/ \E r \in invoices, s \in Range(InvoiceStatusValues) :
          UpdateInvoice(r.id, [status |-> s])
    \/ \E r \in invoices, a \in {0, 120050} : UpdateInvoice(r.id, [amount |-> a])

SpecTransitions == Init /\ [][NextTransitions]_vars

(***************************************************************************)
(* Properties                                                              *)
(***************************************************************************)

\* No two rows of `table` agree on column `col`.
UniqueIn(table, col) == \A a, b \in table : a[col] = b[col] => a = b

\* Outcome `res` is that of an INSERT whose value of `col` a row of `table` has.
InsertCollides(res, table, col) ==
    /\ res.op = "insert"
    /\ res.args[col] \in {r[col] : r \in table}

\* Outcome `res` is that of an UPDATE setting `col` to a value another row of
\* `table` has.
UpdateCollides(res, table, col) ==
    /\ res.op = "update"
    /\ col \in DOMAIN res.args.changes
    /\ \E r \in table : r.id # res.args.id /\ r[col] = res.args.changes[col]

\* C1: no two sites ever have the same name; an insert or an update of a site
\* that would give a second site a name in use fails with UniquenessViolation
\* and leaves the sites table as it was.
C1_SiteNameUnique ==
    /\ [](UniqueIn(sites, "name"))
    /\ [][(/\ result'.table = "sites"
           /\ \/ InsertCollides(result', sites, "name")
              \/ UpdateCollides(result', sites, "name"))
          => (result'.outcome = "UniquenessViolation" /\ sites' = sites)]_vars

\* C1 witness: with two sites stored, renaming one to the name of the other was
\* refused.
C1_Witness ==
    /\ result.op = "update" /\ result.table = "sites"
    /\ result.outcome = "UniquenessViolation"
    /\ \E a, b \in sites :
          /\ a.id = result.args.id /\ b.id # a.id
          /\ b.name = result.args.changes.name /\ a.name # b.name

\* C2: no two contracts share a purchase_order and no two invoices share a
\* publication_id, whatever site or contract they belong to; a colliding insert
\* or update fails and changes no row of any table, and the failure is
\* UniquenessViolation whenever the row's reference is to an existing row (a row
\* that also breaks its foreign key may be reported for either).
C2_SecondaryKeysUnique ==
    /\ [](UniqueIn(contracts, "purchase_order") /\ UniqueIn(invoices, "publication_id"))
    /\ [][(/\ result'.table = "contracts"
           /\ \/ InsertCollides(result', contracts, "purchase_order")
              \/ UpdateCollides(result', contracts, "purchase_order"))
          => (/\ result'.outcome # "ok"
              /\ UNCHANGED tables
              /\ (result'.op = "insert" /\ result'.args.site_id \notin Ids(sites))
                 \/ result'.outcome = "UniquenessViolation")]_vars
    /\ [][(/\ result'.table = "invoices"
           /\ \/ InsertCollides(result', invoices, "publication_id")
              \/ UpdateCollides(result', invoices, "publication_id"))
          => (/\ result'.outcome # "ok"
              /\ UNCHANGED tables
              /\ (result'.op = "insert" /\ result'.args.contract_id \notin Ids(contracts))
                 \/ result'.outcome = "UniquenessViolation")]_vars

\* C2 witness: a contract of one site was refused for the purchase_order of a
\* contract of another site, and two invoices of different contracts are stored.
C2_Witness ==
    /\ result.op = "insert" /\ result.table = "contracts"
    /\ result.outcome = "UniquenessViolation"
    /\ result.args.site_id \in Ids(sites)
    /\ \E c \in contracts :
          /\ c.purchase_order = result.args.purchase_order
          /\ c.site_id # result.args.site_id

\* C3: an insert of a contract whose site_id is the id of no site fails and
\* leaves the contracts table unchanged, with ReferentialIntegrityViolation when
\* the row is otherwise valid; the same insert with the id of an existing site
\* succeeds and adds the row.
C3_ContractNeedsSite ==
    [][(result'.op = "insert" /\ result'.table = "contracts")
       => LET v == result'.args
              fresh == v.purchase_order \notin {c.purchase_order : c \in contracts}
          IN  /\ v.site_id \notin Ids(sites)
                 => /\ result'.outcome # "ok"
                    /\ contracts' = contracts
                    /\ fresh => result'.outcome = "ReferentialIntegrityViolation"
              /\ (v.site_id \in Ids(sites) /\ fresh)
                 => /\ result'.outcome = "ok"
                    /\ contracts' = contracts \cup {ContractRow(contracts_id_seq, v)}]_vars

\* C3 witness: with a site stored, a contract naming another id, not NULL, was
\* refused.
C3_Witness ==
    /\ result.op = "insert" /\ result.table = "contracts"
    /\ result.outcome = "ReferentialIntegrityViolation"
    /\ result.args.site_id # NULL
    /\ sites # {}
    /\ result.args.purchase_order \notin {c.purchase_order : c \in contracts}

\* C4: timeseries_records holds at most one row per (site_id, timestamp); an
\* insert with the key of a stored row fails with UniquenessViolation and leaves
\* every stored row as it was; an insert for an existing site with a key not yet
\* stored succeeds, be it a new timestamp of the same site or the same timestamp
\* of another site.
C4_OneRecordPerSiteAndTimestamp ==
    /\ [](\A a, b \in timeseries_records :
             (a.site_id = b.site_id /\ a.timestamp = b.timestamp) => a = b)
    /\ [][(result'.op = "insert" /\ result'.table = "timeseries_records")
          => LET v == result'.args
                 taken == \E r \in timeseries_records :
                             r.site_id = v.site_id /\ r.timestamp = v.timestamp
             IN  /\ taken => /\ result'.outcome = "UniquenessViolation"
                             /\ timeseries_records' = timeseries_records
                 /\ (~taken /\ v.site_id \in Ids(sites))
                    => /\ result'.outcome = "ok"
                       /\ timeseries_records' = timeseries_records \cup {TSRecordsRow(v)}]_vars

\* C4 witness: a site holds records of two timestamps, another site one of the
\* same timestamp, and a second record of a stored key with another production
\* was refused.
C4_Witness ==
    /\ result.op = "insert" /\ result.table = "timeseries_records"
    /\ result.outcome = "UniquenessViolation"
    /\ \E r \in timeseries_records :
          /\ r.site_id = result.args.site_id /\ r.timestamp = result.args.timestamp
          /\ r.production # result.args.production
    /\ \E a, b, c \in timeseries_records :
          /\ a.site_id = b.site_id /\ a.timestamp # b.timestamp
          /\ c.site_id # a.site_id /\ c.timestamp = a.timestamp

\* Outcome `res` is that of a write (INSERT or UPDATE) of `table` that hands
\* string `elem` to column `col`.
Writes(res, table, col, elem) ==
    /\ res.table = table
    /\ \/ res.op = "insert" /\ res.args[col] = elem
       \/ /\ res.op = "update"
          /\ col \in DOMAIN res.args.changes
          /\ res.args.changes[col] = elem

\* C5: a write of a member of Techno (of InvoiceStatus) is never refused for its
\* value, and the row it stores holds that very string, which is the name of the
\* member in its declared case, not a number; a row that was loaded back carries
\* in its techno (status) the string the column holds, a member name.
C5_EnumRoundTrip ==
    /\ [][\A m \in Range(TechnoValues) :
             Writes(result', "sites", "techno", m)
             => /\ result'.outcome # "DataError"
                /\ result'.outcome = "ok"
                   => /\ result'.value \in sites'
                      /\ result'.value.techno = m
                      /\ m \in Range(TechnoNames)]_vars
    /\ [][\A m \in Range(InvoiceStatusValues) :
             Writes(result', "invoices", "status", m)
             => /\ result'.outcome # "DataError"
                /\ result'.outcome = "ok"
                   => /\ result'.value \in invoices'
                      /\ result'.value.status = m
                      /\ m \in Range(InvoiceStatusNames)]_vars
    /\ []((result.op = "get" /\ result.outcome = "ok" /\ result.table = "sites")
          => \E r \in sites :
                /\ r.id = result.args.id
                /\ result.value.techno = r.techno
                /\ r.techno \in Range(TechnoNames))
    /\ []((result.op = "get" /\ result.outcome = "ok" /\ result.table = "invoices")
          => \E r \in invoices :
                /\ r.id = result.args.id
                /\ result.value.status = r.status
                /\ r.status \in Range(InvoiceStatusNames))

\* C5 witness: a site written with techno solar_field_rooftop was loaded back
\* with techno "solar_field_rooftop", and an invoice is stored as paid.
C5_Witness ==
    /\ result.op = "get" /\ result.table = "sites" /\ result.outcome = "ok"
    /\ result.value.techno = "solar_field_rooftop"
    /\ \E i \in invoices : i.status = "paid"

\* C6: the first row inserted in each table gets id 1, and the inserts of a
\* site, of a contract of an existing site with an unused purchase_order and of
\* an invoice of an existing contract with an unused publication_id succeed; an
\* update of an invoice to status computed and amount 1200.50 succeeds and
\* changes those two columns of that row and nothing else; an insert of a
\* contract with the purchase_order of a stored contract fails with
\* UniquenessViolation and no table changes.
C6_Scenario ==
    /\ [][(result'.op = "insert" /\ result'.table = "sites" /\ sites = {})
          => /\ result'.outcome = "ok"
             /\ result'.value.id = 1 /\ sites' = {result'.value}]_vars
    /\ [][(/\ result'.op = "insert" /\ result'.table = "contracts"
           /\ result'.args.site_id \in Ids(sites)
           /\ result'.args.purchase_order \notin {c.purchase_order : c \in contracts})
          => /\ result'.outcome = "ok"
             /\ contracts = {} => result'.value.id = 1
             /\ contracts' = contracts \cup {result'.value}]_vars
    /\ [][(/\ result'.op = "insert" /\ result'.table = "invoices"
           /\ result'.args.contract_id \in Ids(contracts)
           /\ result'.args.publication_id \notin {i.publication_id : i \in invoices})
          => /\ result'.outcome = "ok"
             /\ invoices = {} => result'.value.id = 1
             /\ result'.value.status = result'.args.status
             /\ result'.value.amount = result'.args.amount
             /\ invoices' = invoices \cup {result'.value}]_vars
    /\ [][(/\ result'.op = "update" /\ result'.table = "invoices"
           /\ result'.args.changes = [amount |-> 120050, status |-> "computed"])
          => \E old \in invoices :
                /\ old.id = result'.args.id
                /\ result'.outcome = "ok"
                /\ invoices' = (invoices \ {old})
                      \cup {[old EXCEPT !.amount = 120050, !.status = "computed"]}
                /\ UNCHANGED <<sites, contracts, timeseries_records>>]_vars
    /\ [][(/\ result'.op = "insert" /\ result'.table = "contracts"
           /\ result'.args.purchase_order \in {c.purchase_order : c \in contracts})
          => /\ result'.outcome = "UniquenessViolation"
             /\ UNCHANGED tables]_vars

\* C6 witness: the end of the scenario.  Site 1, its contract 1 and the invoice 1
\* of that contract, computed at 1200.50 after it was inserted as a draft of
\* amount 0, are stored, and a second contract with the same purchase_order was
\* just refused.
C6_Witness ==
    /\ \E s \in sites : s.id = 1 /\ s.name = "Farm A"
    /\ contracts = {ContractRow(1, NewContract("PO-001", 1, "Monthly"))}
    /\ invoices = {[InvoiceRow(1, NewInvoice("INV-0001", 1, "draft"))
                       EXCEPT !.amount = 120050, !.status = "computed"]}
    /\ result = Outcome("insert", "contracts", NewContract("PO-001", 1, "Monthly"),
                        "UniquenessViolation", <<>>)

\* Every reference of a stored row is the id of a stored row.
ReferencesResolve ==
    /\ \A c \in contracts : c.site_id # NULL /\ c.site_id \in Ids(sites)
    /\ \A i \in invoices : i.contract_id # NULL /\ i.contract_id \in Ids(contracts)
    /\ \A t \in timeseries_records : t.site_id # NULL /\ t.site_id \in Ids(sites)

\* C7: through inserts, updates and deletes every Contract.site_id and every
\* TSRecords.site_id is the id of a stored site and every Invoice.contract_id the
\* id of a stored contract; a delete of a site that contracts or time series
\* records refer to, or of a contract that invoices refer to, fails with
\* ReferentialIntegrityViolation and no row of any table is removed or altered.
C7_ReferentialIntegrity ==
    /\ []ReferencesResolve
    /\ [][(/\ result'.op = "delete" /\ result'.table = "sites"
           /\ \/ \E c \in contracts : c.site_id = result'.args.id
              \/ \E t \in timeseries_records : t.site_id = result'.args.id)
          => /\ result'.outcome = "ReferentialIntegrityViolation"
             /\ UNCHANGED tables]_vars
    /\ [][(/\ result'.op = "delete" /\ result'.table = "contracts"
           /\ \E i \in invoices : i.contract_id = result'.args.id)
          => /\ result'.outcome = "ReferentialIntegrityViolation"
             /\ UNCHANGED tables]_vars

\* C7 witness: the delete of a site that only time series records refer to was
\* refused, while a contract with an invoice is stored for another site.
C7_Witness ==
    /\ result.op = "delete" /\ result.table = "sites"
    /\ result.outcome = "ReferentialIntegrityViolation"
    /\ \E t \in timeseries_records : t.site_id = result.args.id
    /\ \A c \in contracts : c.site_id # result.args.id
    /\ \E c \in contracts, i \in invoices : i.contract_id = c.id

\* C8: whatever status an invoice has, an update of it to any of the five
\* statuses can be made and succeeds, storing the status asked for; so does a
\* change of its amount.
C8_NoTransitionGuard ==
    /\ [](\A r \in invoices, t \in Range(InvoiceStatusValues) :
             ENABLED (/\ UpdateInvoice(r.id, [status |-> t])
                      /\ result'.outcome = "ok"))
    /\ [][(/\ result'.op = "update" /\ result'.table = "invoices"
           /\ DOMAIN result'.args.changes \subseteq {"status", "amount"})
          => /\ result'.outcome = "ok"
             /\ result'.before \in invoices
             /\ result'.value \in invoices'
             /\ result'.value.id = result'.before.id
             /\ \A c \in DOMAIN result'.args.changes :
                   result'.value[c] = result'.args.changes[c]]_vars

\* C8 witness: an invoice that was paid has just been set back to draft.
C8_Witness ==
    /\ result.op = "update" /\ result.table = "invoices" /\ result.outcome = "ok"
    /\ result.before.status = "paid"
    /\ result.value.status = "draft"
    /\ result.value \in invoices

\* C9: every stored techno, status and invoicing_frequency is a value of its
\* closed set; a write that hands such a column another string is refused, and
\* a loaded object carries a value of the set.
C9_EnumColumnsClosed ==
    /\ \A s \in sites : s.techno \in Range(TechnoNames)
    /\ \A i \in invoices : i.status \in Range(InvoiceStatusNames)
    /\ \A c \in contracts : c.invoicing_frequency \in Range(InvoicingFrequencies)
    /\ (\E e \in TechnoInputs \ Range(TechnoValues) :
           Writes(result, "sites", "techno", e)) => result.outcome # "ok"
    /\ (\E e \in InvoiceStatusInputs \ Range(InvoiceStatusValues) :
           Writes(result, "invoices", "status", e)) => result.outcome # "ok"
    /\ (\E e \in FrequencyInputs \ Range(InvoicingFrequencies) :
           Writes(result, "contracts", "invoicing_frequency", e))
       => result.outcome # "ok"
    /\ (result.op = "get" /\ result.outcome = "ok")
       => CASE result.table = "sites" -> result.value.techno \in Range(TechnoValues)
            [] result.table = "invoices" ->
                  result.value.status \in Range(InvoiceStatusValues)
            [] result.table = "contracts" ->
                  result.value.invoicing_frequency \in Range(InvoicingFrequencies)
            [] OTHER -> TRUE

\* C10: repr() of the object of any stored row, of whichever table, returns a
\* string that starts "<", the class name, " n°".
C10_ReprOfEveryEntity ==
    result.op = "repr"
    => /\ result.outcome = "ok"
       /\ Len(result.value) >= 3
       /\ result.value[1] = "<"
       /\ result.value[2] = (CASE result.table = "sites" -> "Site"
                               [] result.table = "contracts" -> "Contract"
                               [] result.table = "invoices" -> "Invoice"
                               [] result.table = "timeseries_records" -> "TSRecords")
       /\ result.value[3] = " n°"

====
